---- MODULE Spec2Model ----
(***************************************************************************)
(* Model of internal/infra/database/auction/create_auction.go:             *)
(* AuctionRepository.CreateAuction, autoClose, the deferred close          *)
(* goroutine, calculateAuctionEndTime, getAuctionInterval and closeAuction.*)
(*                                                                         *)
(* Time is counted in ticks, TicksPerSecond ticks to the second.  Every    *)
(* CreateAuction call is a process that moves through the lines of the     *)
(* source; every goroutine started at line 101 is an element of tasks.     *)
(***************************************************************************)
EXTENDS Integers, Sequences, FiniteSets, TLC

\* ---- bounds of the model ------------------------------------------------
MaxCalls == 2
MaxIds == 2
MaxTime == 3
NumCtx == 2
TicksPerSecond == 2
MaxCloses == 2

Calls == 1..MaxCalls
Ids == 1..MaxIds
Ctxs == 1..NumCtx

\* ---- auction_entity.AuctionStatus ---------------------------------------
Active == "Active"
Completed == "Completed"

\* ---- process environment: the values AUCTION_INTERVAL may hold ----------
EnvValues == {"1s", ""}

VARIABLES
    now,                \* wall clock, in ticks
    env,                \* os.Getenv("AUCTION_INTERVAL")
    cancelled,          \* the contexts whose Done channel is closed
    Collection,         \* ar.Collection: _id -> [Status, Timestamp (unix seconds)]
    AuctionsAutoClose,  \* ar.AuctionsAutoClose: id -> status
    CloseMutex,         \* ar.CloseMutex: TRUE when locked (no owner, as sync.Mutex)
    fatal,              \* the runtime stopped the process (unlock of unlocked mutex)
    pc,                 \* per call: the line the call stands at
    ctx,                \* per call: its ctx argument
    openAuctions,       \* per call: the rest of the slice ranged over at line 78
    cur,                \* per call: auctionEntity of the current iteration
    timeUntilClose,     \* per call: the local of line 79
    err,                \* per call: the err of line 62, autoClose's result
    ret,                \* per call: what CreateAuction returned
    tasks,              \* the goroutines started at line 101, in spawn order
    \* history variables, read only by the properties
    updates,            \* per id: closeAuction calls that returned nil
    admitted,           \* ids inserted while their remaining time was > 0
    admitCtx,           \* per id: the ctx of the call that inserted it
    createdAt,          \* per id: auctionEntity.Timestamp of its insert, in ticks
    cancelledEarly,     \* ids whose admitting ctx was cancelled before expiry
    closedBy,           \* per id: what applied the first update: immediate or deferred
    listErr,            \* per call: its FindOpenAuctions failed
    overdue,            \* per call: ids it found with timeUntilClose <= 0
    closeErr,           \* per call: ids whose immediate close failed
    reserved,           \* per call: ids it entered in AuctionsAutoClose
    spawned             \* per call: ids it started a goroutine for

progVars == <<now, env, cancelled, Collection, AuctionsAutoClose, CloseMutex,
              fatal, pc, ctx, openAuctions, cur, timeUntilClose, err, ret, tasks>>
histVars == <<updates, admitted, admitCtx, createdAt, cancelledEarly,
              closedBy, listErr, overdue, closeErr, reserved, spawned>>
vars == <<progVars, histVars>>
progVars_but_pc == <<now, env, cancelled, Collection, AuctionsAutoClose, CloseMutex,
                     fatal, ctx, openAuctions, cur, timeUntilClose, err, ret, tasks>>

NoAuction == [Id |-> 0, Timestamp |-> 0]

\* ---- time ----------------------------------------------------------------
\* time.Time.Unix(): whole seconds, the fraction dropped (line 53)
Unix(t) == t \div TicksPerSecond

\* time.Unix(sec, 0), as FindOpenAuctions rebuilds the entity's Timestamp
FromUnix(sec) == sec * TicksPerSecond

\* time.ParseDuration on the values of EnvValues (line 126)
ParseDuration(s) ==
    CASE s = "1s" -> [err |-> FALSE, d |-> TicksPerSecond]
      [] s = "2s" -> [err |-> FALSE, d |-> 2 * TicksPerSecond]
      [] OTHER    -> [err |-> TRUE, d |-> 0]

\* lines 124-133
getAuctionInterval ==
    IF ParseDuration(env).err THEN 5 * 60 * TicksPerSecond
    ELSE ParseDuration(env).d

\* line 136: the end time of the stored auction a
EndTime(coll, a) == FromUnix(coll[a].Timestamp) + getAuctionInterval

\* a slip: the interval is not added to the creation time
calculateAuctionEndTimeNoInterval(auctionEntity, t) ==
    auctionEntity.Timestamp - t

\* lines 135-138: time.Until(Timestamp.Add(interval)), read at clock value t
calculateAuctionEndTime(auctionEntity, t) ==
    (auctionEntity.Timestamp + getAuctionInterval) - t

\* ---- store ----------------------------------------------------------------
\* the document built at lines 46-54
AuctionEntityMongo(id, timestamp) ==
    [Status |-> Active, Timestamp |-> Unix(timestamp)]

\* Collection.InsertOne (line 55): a new _id is added, nothing is replaced
InsertOne(coll, id, doc) ==
    [x \in DOMAIN coll \cup {id} |-> IF x = id THEN doc ELSE coll[x]]

\* the open auctions of the store, as entities
OpenSet(coll) ==
    {[Id |-> id, Timestamp |-> FromUnix(coll[id].Timestamp)] :
        id \in {x \in DOMAIN coll : coll[x].Status = Active}}

\* the orders in which a listing may return a set of entities
Listings(S) ==
    {s \in [1..Cardinality(S) -> S] : \A i, j \in DOMAIN s : i # j => s[i] # s[j]}

\* a slip: SetUpsert(true), a missing _id is inserted
closeAuctionUpsert(coll, id) ==
    [x \in DOMAIN coll \cup {id} |->
        IF x = id
        THEN IF x \in DOMAIN coll THEN [coll[x] EXCEPT !.Status = Completed]
             ELSE [Status |-> Completed, Timestamp |-> 0]
        ELSE coll[x]]

\* a slip: the filter names a field no document has, so nothing is matched
closeAuctionWrongFilter(coll, id) == coll

\* lines 140-149: UpdateOne({_id: id}, {$set: {status: Completed}}), no upsert
closeAuction(coll, id) ==
    [x \in DOMAIN coll |->
        IF x = id THEN [coll[x] EXCEPT !.Status = Completed] ELSE coll[x]]

\* a store operation under context c can succeed only while c is not done
CtxAlive(c) == c \notin cancelled

\* ---- initial state: NewAuctionRepository (lines 34-40), an empty store ------
Init ==
    /\ now = 0
    /\ env \in EnvValues
    /\ cancelled = {}
    /\ Collection = <<>>
    /\ AuctionsAutoClose = <<>>
    /\ CloseMutex = FALSE
    /\ fatal = FALSE
    /\ pc = [c \in Calls |-> "idle"]
    /\ ctx = [c \in Calls |-> 0]
    /\ openAuctions = [c \in Calls |-> <<>>]
    /\ cur = [c \in Calls |-> NoAuction]
    /\ timeUntilClose = [c \in Calls |-> 0]
    /\ err = [c \in Calls |-> "nil"]
    /\ ret = [c \in Calls |-> "none"]
    /\ tasks = <<>>
    /\ updates = [a \in Ids |-> 0]
    /\ admitted = {}
    /\ admitCtx = [a \in Ids |-> 0]
    /\ createdAt = [a \in Ids |-> 0]
    /\ cancelledEarly = {}
    /\ closedBy = [a \in Ids |-> "none"]
    /\ listErr = [c \in Calls |-> FALSE]
    /\ overdue = [c \in Calls |-> {}]
    /\ closeErr = [c \in Calls |-> {}]
    /\ reserved = [c \in Calls |-> {}]
    /\ spawned = [c \in Calls |-> {}]

\* what a successful closeAuction leaves in the history variables
Closed(id, kind) ==
    /\ updates' = [updates EXCEPT ![id] = @ + 1]
    /\ closedBy' = IF closedBy[id] = "none" THEN [closedBy EXCEPT ![id] = kind]
                   ELSE closedBy

\* sync.Mutex.Unlock: unlocking an unlocked mutex is a fatal runtime error
Unlock ==
    /\ CloseMutex' = FALSE
    /\ fatal' = ~CloseMutex

\* a slip: the document is written with upsert, replacing one of the same _id
CreateAuctionUpsert(c, x, id, timestamp) ==
    /\ ~fatal /\ pc[c] = "idle"
    /\ CtxAlive(x)
    /\ Collection' = InsertOne(Collection, id, AuctionEntityMongo(id, timestamp))
    /\ ctx' = [ctx EXCEPT ![c] = x]
    /\ pc' = [pc EXCEPT ![c] = "L61"]
    /\ admitted' = IF EndTime(Collection', id) > now
                   THEN admitted \cup {id} ELSE admitted
    /\ admitCtx' = [admitCtx EXCEPT ![id] = x]
    /\ createdAt' = [createdAt EXCEPT ![id] = timestamp]
    /\ UNCHANGED <<now, env, cancelled, AuctionsAutoClose, CloseMutex, fatal,
                   openAuctions, cur, timeUntilClose, err, ret, tasks>>
    /\ UNCHANGED <<updates, cancelledEarly, closedBy, listErr,
                   overdue, closeErr, reserved, spawned>>

\* ---- CreateAuction, lines 42-59: the insert succeeds ------------------------
CreateAuctionInsert(c, x, id, timestamp) ==
    /\ ~fatal /\ pc[c] = "idle"
    /\ CtxAlive(x)
    /\ id \notin DOMAIN Collection
    /\ Collection' = InsertOne(Collection, id, AuctionEntityMongo(id, timestamp))
    /\ ctx' = [ctx EXCEPT ![c] = x]
    /\ pc' = [pc EXCEPT ![c] = "L61"]
    /\ admitted' = IF EndTime(Collection', id) > now
                   THEN admitted \cup {id} ELSE admitted
    /\ admitCtx' = [admitCtx EXCEPT ![id] = x]
    /\ createdAt' = [createdAt EXCEPT ![id] = timestamp]
    /\ UNCHANGED <<now, env, cancelled, AuctionsAutoClose, CloseMutex, fatal,
                   openAuctions, cur, timeUntilClose, err, ret, tasks>>
    /\ UNCHANGED <<updates, cancelledEarly, closedBy, listErr,
                   overdue, closeErr, reserved, spawned>>

\* lines 55-59: the insert fails (duplicate _id, cancelled ctx, store down)
CreateAuctionInsertErr(c) ==
    /\ ~fatal /\ pc[c] = "idle"
    /\ ret' = [ret EXCEPT ![c] = "insert_error"]
    /\ pc' = [pc EXCEPT ![c] = "done"]
    /\ UNCHANGED <<now, env, cancelled, Collection, AuctionsAutoClose, CloseMutex,
                   fatal, ctx, openAuctions, cur, timeUntilClose, err, tasks>>
    /\ UNCHANGED <<updates, admitted, admitCtx, createdAt, cancelledEarly, closedBy, listErr,
                   overdue, closeErr, reserved, spawned>>

\* line 61: ar.CloseMutex.Lock()
CreateAuctionLock(c) ==
    /\ ~fatal /\ pc[c] = "L61"
    /\ ~CloseMutex
    /\ CloseMutex' = TRUE
    /\ pc' = [pc EXCEPT ![c] = "find"]
    /\ UNCHANGED <<now, env, cancelled, Collection, AuctionsAutoClose, fatal, ctx,
                   openAuctions, cur, timeUntilClose, err, ret, tasks>>
    /\ UNCHANGED histVars

\* line 73: the listing succeeds, in some order
FindOpenAuctions(c) ==
    /\ ~fatal /\ pc[c] = "find"
    /\ CtxAlive(ctx[c])
    /\ \E l \in Listings(OpenSet(Collection)) :
          openAuctions' = [openAuctions EXCEPT ![c] = l]
    /\ pc' = [pc EXCEPT ![c] = "loop"]
    /\ UNCHANGED <<now, env, cancelled, Collection, AuctionsAutoClose, CloseMutex,
                   fatal, ctx, cur, timeUntilClose, err, ret, tasks>>
    /\ UNCHANGED histVars

\* a slip: line 75 returns nil in place of err
FindOpenAuctionsErrDropped(c) ==
    /\ ~fatal /\ pc[c] = "find"
    /\ err' = [err EXCEPT ![c] = "nil"]
    /\ listErr' = [listErr EXCEPT ![c] = TRUE]
    /\ pc' = [pc EXCEPT ![c] = "L63"]
    /\ UNCHANGED <<now, env, cancelled, Collection, AuctionsAutoClose, CloseMutex,
                   fatal, ctx, openAuctions, cur, timeUntilClose, ret, tasks>>
    /\ UNCHANGED <<updates, admitted, admitCtx, createdAt, cancelledEarly, closedBy,
                   overdue, closeErr, reserved, spawned>>

\* lines 73-76: the listing fails, autoClose returns the error
FindOpenAuctionsErr(c) ==
    /\ ~fatal /\ pc[c] = "find"
    /\ err' = [err EXCEPT ![c] = "error"]
    /\ listErr' = [listErr EXCEPT ![c] = TRUE]
    /\ pc' = [pc EXCEPT ![c] = "L63"]
    /\ UNCHANGED <<now, env, cancelled, Collection, AuctionsAutoClose, CloseMutex,
                   fatal, ctx, openAuctions, cur, timeUntilClose, ret, tasks>>
    /\ UNCHANGED <<updates, admitted, admitCtx, createdAt, cancelledEarly, closedBy,
                   overdue, closeErr, reserved, spawned>>

\* a slip: line 81 lets through an auction with up to a second left
autoCloseImmediateEarly(c) ==
    /\ ~fatal /\ pc[c] = "loop" /\ openAuctions[c] # <<>>
    /\ LET auctionEntity == Head(openAuctions[c])
           rem == calculateAuctionEndTime(auctionEntity, now)
       IN  /\ rem <= TicksPerSecond
           /\ CtxAlive(ctx[c])
           /\ Collection' = closeAuction(Collection, auctionEntity.Id)
           /\ Closed(auctionEntity.Id, "immediate")
           /\ overdue' = [overdue EXCEPT ![c] = @ \cup {auctionEntity.Id}]
    /\ openAuctions' = [openAuctions EXCEPT ![c] = Tail(@)]
    /\ UNCHANGED <<now, env, cancelled, AuctionsAutoClose, CloseMutex, fatal, pc,
                   ctx, cur, timeUntilClose, err, ret, tasks>>
    /\ UNCHANGED <<admitted, admitCtx, createdAt, cancelledEarly, listErr,
                   closeErr, reserved, spawned>>

\* ---- autoClose, lines 78-87: the auction is overdue and is closed at once ----
autoCloseImmediate(c) ==
    /\ ~fatal /\ pc[c] = "loop" /\ openAuctions[c] # <<>>
    /\ LET auctionEntity == Head(openAuctions[c])
           rem == calculateAuctionEndTime(auctionEntity, now)
       IN  /\ rem <= 0
           /\ CtxAlive(ctx[c])
           /\ Collection' = closeAuction(Collection, auctionEntity.Id)
           /\ Closed(auctionEntity.Id, "immediate")
           /\ overdue' = [overdue EXCEPT ![c] = @ \cup {auctionEntity.Id}]
    /\ openAuctions' = [openAuctions EXCEPT ![c] = Tail(@)]
    /\ UNCHANGED <<now, env, cancelled, AuctionsAutoClose, CloseMutex, fatal, pc,
                   ctx, cur, timeUntilClose, err, ret, tasks>>
    /\ UNCHANGED <<admitted, admitCtx, createdAt, cancelledEarly, listErr,
                   closeErr, reserved, spawned>>

\* a slip: the error of a failed immediate close is returned, not logged
autoCloseImmediateErrReturned(c) ==
    /\ ~fatal /\ pc[c] = "loop" /\ openAuctions[c] # <<>>
    /\ LET auctionEntity == Head(openAuctions[c])
           rem == calculateAuctionEndTime(auctionEntity, now)
       IN  /\ rem <= 0
           /\ overdue' = [overdue EXCEPT ![c] = @ \cup {auctionEntity.Id}]
           /\ closeErr' = [closeErr EXCEPT ![c] = @ \cup {auctionEntity.Id}]
    /\ openAuctions' = [openAuctions EXCEPT ![c] = Tail(@)]
    /\ err' = [err EXCEPT ![c] = "error"]
    /\ pc' = [pc EXCEPT ![c] = "L63"]
    /\ UNCHANGED <<now, env, cancelled, Collection, AuctionsAutoClose, CloseMutex,
                   fatal, ctx, cur, timeUntilClose, ret, tasks>>
    /\ UNCHANGED <<updates, admitted, admitCtx, createdAt, cancelledEarly, closedBy, listErr,
                   reserved, spawned>>

\* lines 81-86: the immediate close fails; the error is logged, the loop goes on
autoCloseImmediateErr(c) ==
    /\ ~fatal /\ pc[c] = "loop" /\ openAuctions[c] # <<>>
    /\ LET auctionEntity == Head(openAuctions[c])
           rem == calculateAuctionEndTime(auctionEntity, now)
       IN  /\ rem <= 0
           /\ overdue' = [overdue EXCEPT ![c] = @ \cup {auctionEntity.Id}]
           /\ closeErr' = [closeErr EXCEPT ![c] = @ \cup {auctionEntity.Id}]
    /\ openAuctions' = [openAuctions EXCEPT ![c] = Tail(@)]
    /\ UNCHANGED <<now, env, cancelled, Collection, AuctionsAutoClose, CloseMutex,
                   fatal, pc, ctx, cur, timeUntilClose, err, ret, tasks>>
    /\ UNCHANGED <<updates, admitted, admitCtx, createdAt, cancelledEarly, closedBy, listErr,
                   reserved, spawned>>

\* lines 78-81, 89: the auction has time left; the call goes on to line 89
autoCloseDefer(c) ==
    /\ ~fatal /\ pc[c] = "loop" /\ openAuctions[c] # <<>>
    /\ LET auctionEntity == Head(openAuctions[c])
           rem == calculateAuctionEndTime(auctionEntity, now)
       IN  /\ rem > 0
           /\ cur' = [cur EXCEPT ![c] = auctionEntity]
           /\ timeUntilClose' = [timeUntilClose EXCEPT ![c] = rem]
    /\ openAuctions' = [openAuctions EXCEPT ![c] = Tail(@)]
    /\ pc' = [pc EXCEPT ![c] = "L89"]
    /\ UNCHANGED <<now, env, cancelled, Collection, AuctionsAutoClose, CloseMutex,
                   fatal, ctx, err, ret, tasks>>
    /\ UNCHANGED histVars

\* line 89: ar.CloseMutex.Lock(), by the call that locked it at line 61
autoCloseLock(c) ==
    /\ ~fatal /\ pc[c] = "L89"
    /\ ~CloseMutex
    /\ CloseMutex' = TRUE
    /\ pc' = [pc EXCEPT ![c] = "L90"]
    /\ UNCHANGED <<now, env, cancelled, Collection, AuctionsAutoClose, fatal, ctx,
                   openAuctions, cur, timeUntilClose, err, ret, tasks>>
    /\ UNCHANGED histVars

\* lines 90-97: skip an id that has an entry, else enter it; unlock either way
autoCloseReserve(c) ==
    /\ ~fatal /\ pc[c] = "L90"
    /\ IF cur[c].Id \in DOMAIN AuctionsAutoClose
       THEN /\ pc' = [pc EXCEPT ![c] = "loop"]
            /\ UNCHANGED <<AuctionsAutoClose, reserved>>
       ELSE /\ AuctionsAutoClose' =
                  [x \in DOMAIN AuctionsAutoClose \cup {cur[c].Id} |-> Active]
            /\ reserved' = [reserved EXCEPT ![c] = @ \cup {cur[c].Id}]
            /\ pc' = [pc EXCEPT ![c] = "L99"]
    /\ Unlock
    /\ UNCHANGED <<now, env, cancelled, Collection, ctx, openAuctions, cur,
                   timeUntilClose, err, ret, tasks>>
    /\ UNCHANGED <<updates, admitted, admitCtx, createdAt, cancelledEarly,
                   closedBy, listErr, overdue, closeErr, spawned>>

\* lines 99-101: the timer is armed and the goroutine started
autoCloseSpawn(c) ==
    /\ ~fatal /\ pc[c] = "L99"
    /\ tasks' = Append(tasks, [Id |-> cur[c].Id, ctx |-> ctx[c],
                               deadline |-> now + timeUntilClose[c],
                               pc |-> "select", failed |-> FALSE])
    /\ spawned' = [spawned EXCEPT ![c] = @ \cup {cur[c].Id}]
    /\ pc' = [pc EXCEPT ![c] = "loop"]
    /\ UNCHANGED <<now, env, cancelled, Collection, AuctionsAutoClose, CloseMutex,
                   fatal, ctx, openAuctions, cur, timeUntilClose, err, ret>>
    /\ UNCHANGED <<updates, admitted, admitCtx, createdAt, cancelledEarly,
                   closedBy, listErr, overdue, closeErr, reserved>>

\* lines 78, 121: the slice is exhausted, autoClose returns nil
autoCloseReturn(c) ==
    /\ ~fatal /\ pc[c] = "loop" /\ openAuctions[c] = <<>>
    /\ pc' = [pc EXCEPT ![c] = "L63"]
    /\ UNCHANGED progVars_but_pc
    /\ UNCHANGED histVars

\* lines 63-69: unlock, then return autoClose's outcome; the frame is gone
CreateAuctionReturn(c) ==
    /\ ~fatal /\ pc[c] = "L63"
    /\ Unlock
    /\ ret' = [ret EXCEPT ![c] = IF err[c] # "nil" THEN "autoclose_error" ELSE "nil"]
    /\ pc' = [pc EXCEPT ![c] = "done"]
    /\ ctx' = [ctx EXCEPT ![c] = 0]
    /\ cur' = [cur EXCEPT ![c] = NoAuction]
    /\ timeUntilClose' = [timeUntilClose EXCEPT ![c] = 0]
    /\ UNCHANGED <<now, env, cancelled, Collection, AuctionsAutoClose,
                   openAuctions, err, tasks>>
    /\ UNCHANGED histVars

\* ---- the goroutine of lines 101-118, task i of tasks ------------------------
\* lines 104-107: ctx.Done() is chosen; the goroutine returns
TaskCtxDone(i) ==
    /\ ~fatal /\ tasks[i].pc = "select"
    /\ tasks[i].ctx \in cancelled
    /\ tasks' = [tasks EXCEPT ![i].pc = "exited"]
    /\ UNCHANGED <<now, env, cancelled, Collection, AuctionsAutoClose, CloseMutex,
                   fatal, pc, ctx, openAuctions, cur, timeUntilClose, err, ret>>
    /\ UNCHANGED histVars

\* lines 104, 108: timer.C is chosen, not before the timer's deadline
TaskTimer(i) ==
    /\ ~fatal /\ tasks[i].pc = "select"
    /\ now >= tasks[i].deadline
    /\ tasks' = [tasks EXCEPT ![i].pc = "L109"]
    /\ UNCHANGED <<now, env, cancelled, Collection, AuctionsAutoClose, CloseMutex,
                   fatal, pc, ctx, openAuctions, cur, timeUntilClose, err, ret>>
    /\ UNCHANGED histVars

\* line 109: ar.CloseMutex.Lock()
TaskLock(i) ==
    /\ ~fatal /\ tasks[i].pc = "L109"
    /\ ~CloseMutex
    /\ CloseMutex' = TRUE
    /\ tasks' = [tasks EXCEPT ![i].pc = "L112"]
    /\ UNCHANGED <<now, env, cancelled, Collection, AuctionsAutoClose, fatal, pc,
                   ctx, openAuctions, cur, timeUntilClose, err, ret>>
    /\ UNCHANGED histVars

\* the map without key id: delete(ar.AuctionsAutoClose, id), line 116
Delete(m, id) == [x \in DOMAIN m \ {id} |-> m[x]]

\* lines 112-117, 110: the close succeeds, the entry is deleted, the mutex unlocked
TaskClose(i) ==
    /\ ~fatal /\ tasks[i].pc = "L112"
    /\ CtxAlive(tasks[i].ctx)
    /\ Collection' = closeAuction(Collection, tasks[i].Id)
    /\ Closed(tasks[i].Id, "deferred")
    /\ AuctionsAutoClose' = Delete(AuctionsAutoClose, tasks[i].Id)
    /\ Unlock
    /\ tasks' = [tasks EXCEPT ![i].pc = "exited"]
    /\ UNCHANGED <<now, env, cancelled, pc, ctx, openAuctions, cur,
                   timeUntilClose, err, ret>>
    /\ UNCHANGED <<admitted, admitCtx, createdAt, cancelledEarly, listErr,
                   overdue, closeErr, reserved, spawned>>

\* lines 112-117, 110: the close fails and is logged; the entry is deleted all the same
TaskCloseErr(i) ==
    /\ ~fatal /\ tasks[i].pc = "L112"
    /\ AuctionsAutoClose' = Delete(AuctionsAutoClose, tasks[i].Id)
    /\ Unlock
    /\ tasks' = [tasks EXCEPT ![i].pc = "exited", ![i].failed = TRUE]
    /\ UNCHANGED <<now, env, cancelled, Collection, pc, ctx, openAuctions, cur,
                   timeUntilClose, err, ret>>
    /\ UNCHANGED <<updates, admitted, admitCtx, createdAt, cancelledEarly, closedBy, listErr,
                   overdue, closeErr, reserved, spawned>>

\* ---- environment ----------------------------------------------------------
\* the clock advances
Tick ==
    /\ ~fatal /\ now < MaxTime
    /\ now' = now + 1
    /\ UNCHANGED <<env, cancelled, Collection, AuctionsAutoClose, CloseMutex, fatal,
                   pc, ctx, openAuctions, cur, timeUntilClose, err, ret, tasks>>
    /\ UNCHANGED histVars

\* the contexts some call, auction or goroutine of the run was given
UsedCtxs ==
    {ctx[c] : c \in Calls} \cup {admitCtx[a] : a \in Ids}
        \cup {tasks[i].ctx : i \in DOMAIN tasks}

\* a caller cancels context x; a context cancelled before its first use only
\* makes the insert of its call fail, which CreateAuctionInsertErr covers
Cancel(x) ==
    /\ ~fatal /\ x \notin cancelled
    /\ x \in UsedCtxs
    /\ cancelled' = cancelled \cup {x}
    /\ cancelledEarly' = cancelledEarly \cup
          {a \in DOMAIN Collection :
              /\ admitCtx[a] = x
              /\ Collection[a].Status = Active
              /\ EndTime(Collection, a) > now}
    /\ UNCHANGED <<now, env, Collection, AuctionsAutoClose, CloseMutex, fatal, pc,
                   ctx, openAuctions, cur, timeUntilClose, err, ret, tasks>>
    /\ UNCHANGED <<updates, admitted, admitCtx, createdAt, closedBy, listErr,
                   overdue, closeErr, reserved, spawned>>

\* ---- specifications --------------------------------------------------------
\* the steps of call c once its insert is done
CallStep(c) ==
    \/ CreateAuctionLock(c)
    \/ FindOpenAuctions(c)
    \/ FindOpenAuctionsErr(c)
    \/ autoCloseImmediate(c)
    \/ autoCloseImmediateErr(c)
    \/ autoCloseDefer(c)
    \/ autoCloseReturn(c)
    \/ CreateAuctionReturn(c)

\* the steps behind line 89
DeferredStep ==
    \/ \E c \in Calls : autoCloseLock(c) \/ autoCloseReserve(c) \/ autoCloseSpawn(c)
    \/ \E i \in DOMAIN tasks :
          TaskCtxDone(i) \/ TaskTimer(i) \/ TaskLock(i) \/ TaskClose(i) \/ TaskCloseErr(i)

\* Calls, auction ids and contexts are interchangeable, so they are numbered
\* in the order of their first appearance: the next call, an id of the store
\* or the next new one, a context already seen or the next new one.
NextCall(c) == pc[c] = "idle" /\ \A d \in Calls : d < c => pc[d] # "idle"
NextId(id) == id <= Cardinality(DOMAIN Collection) + 1
NextCtx(x) == \A y \in Ctxs : y < x => y \in UsedCtxs

\* a caller invokes CreateAuction(ctx, auctionEntity), the entity created now
Invoke ==
    \/ \E c \in Calls, x \in Ctxs, id \in Ids :
          NextCall(c) /\ NextCtx(x) /\ NextId(id) /\ CreateAuctionInsert(c, x, id, now)
    \/ \E c \in Calls :
          NextCall(c) /\ CreateAuctionInsertErr(c)

Next ==
    \/ Invoke
    \/ \E c \in Calls : CallStep(c)
    \/ \E x \in Ctxs : Cancel(x)
    \/ Tick

Spec == Init /\ [][Next]_vars

\* ---- closeAuction on its own: any store, any id, any number of times ------
\* the stores the collection may hold when the repository is constructed
Stores ==
    UNION {[S -> [Status : {Active, Completed}, Timestamp : 0..Unix(MaxTime)]] :
              S \in SUBSET Ids}

\* NewAuctionRepository (lines 34-40) over a store that already holds auctions
CloseInit ==
    /\ now = 0
    /\ env \in EnvValues
    /\ cancelled = {}
    /\ Collection \in Stores
    /\ AuctionsAutoClose = <<>>
    /\ CloseMutex = FALSE
    /\ fatal = FALSE
    /\ pc = [c \in Calls |-> "idle"]
    /\ ctx = [c \in Calls |-> 0]
    /\ openAuctions = [c \in Calls |-> <<>>]
    /\ cur = [c \in Calls |-> NoAuction]
    /\ timeUntilClose = [c \in Calls |-> 0]
    /\ err = [c \in Calls |-> "nil"]
    /\ ret = [c \in Calls |-> "none"]
    /\ tasks = <<>>
    /\ updates = [a \in Ids |-> 0]
    /\ admitted = {}
    /\ admitCtx = [a \in Ids |-> 0]
    /\ createdAt = [a \in Ids |-> IF a \in DOMAIN Collection
                                  THEN FromUnix(Collection[a].Timestamp) ELSE 0]
    /\ cancelledEarly = {}
    /\ closedBy = [a \in Ids |-> "none"]
    /\ listErr = [c \in Calls |-> FALSE]
    /\ overdue = [c \in Calls |-> {}]
    /\ closeErr = [c \in Calls |-> {}]
    /\ reserved = [c \in Calls |-> {}]
    /\ spawned = [c \in Calls |-> {}]

\* lines 140-158: closeAuction(ctx, auctionEntity) with auctionEntity.Id = id
\* returns nil, whatever the store holds for id
closeAuctionAny(id) ==
    /\ updates[id] < MaxCloses
    /\ Collection' = closeAuction(Collection, id)
    /\ Closed(id, "direct")
    /\ UNCHANGED <<now, env, cancelled, AuctionsAutoClose, CloseMutex, fatal, pc,
                   ctx, openAuctions, cur, timeUntilClose, err, ret, tasks>>
    /\ UNCHANGED <<admitted, admitCtx, createdAt, cancelledEarly, listErr,
                   overdue, closeErr, reserved, spawned>>

CloseNext == \E id \in Ids : closeAuctionAny(id)

SpecClose == CloseInit /\ [][CloseNext]_vars

\* every step of the source, those behind line 89 included
GoNext == Next \/ DeferredStep

SpecGo == Init /\ [][GoNext]_vars

\* The Go scheduler runs every goroutine that can run, and the clock advances.
FairSpec ==
    /\ Spec
    /\ WF_vars(Tick)
    /\ \A c \in Calls : WF_vars(CallStep(c))

\* ---- properties ------------------------------------------------------------
\* some store operation has returned an error
storeFailed ==
    \/ \E c \in Calls : ret[c] = "insert_error" \/ listErr[c] \/ closeErr[c] # {}
    \/ \E i \in DOMAIN tasks : tasks[i].failed

\* the auctions of the store whose expiry lies within the modelled time
ExpiresInTime(a) ==
    /\ a \in DOMAIN Collection
    /\ FromUnix(Collection[a].Timestamp) + getAuctionInterval <= MaxTime

IsCompleted(a) == a \in DOMAIN Collection /\ Collection[a].Status = Completed

\* Lines 89-118 are never reached: line 89 locks the mutex line 61 locked.
NoDeferredStep ==
    /\ tasks = <<>>
    /\ AuctionsAutoClose = <<>>
    /\ \A c \in Calls : pc[c] \notin {"L90", "L99"}

\* C1: every CreateAuction call whose insert and whose listing succeeded
\* eventually returns nil, whatever the open auctions are.
C1_EventuallyReturns ==
    \A c \in Calls : (pc[c] = "loop") ~> (pc[c] = "done" /\ ret[c] = "nil")

\* C2: an auction admitted with remaining time > 0 is eventually Completed,
\* unless a context is cancelled or a store operation fails.
C2_EventuallyCompleted ==
    \A a \in Ids :
        (a \in admitted /\ ExpiresInTime(a)) ~>
            (IsCompleted(a) \/ storeFailed \/ cancelled # {})

\* the goroutines that were started and have not returned
LiveTasks(a) == {i \in DOMAIN tasks : tasks[i].Id = a /\ tasks[i].pc # "exited"}

\* the goroutines that still wait in the select of line 104
WaitingTasks(a) == {i \in DOMAIN tasks : tasks[i].Id = a /\ tasks[i].pc = "select"}

\* C3: at most one deferred close task is live for any auction id.
C3_AtMostOneLiveTask ==
    \A a \in Ids : Cardinality(LiveTasks(a)) <= 1

\* C4, as stated: when a pass has returned, every auction it found overdue is
\* Completed, and the pass made no registry entry and no task for it.
C4_OverdueCompletedAtReturn ==
    \A c \in Calls : pc[c] = "done" =>
        \A a \in overdue[c] :
            IsCompleted(a) /\ a \notin reserved[c] /\ a \notin spawned[c]

\* C4, amended: every auction a pass found overdue and whose status update
\* succeeded is Completed from then on, so also when the pass returns; a failed
\* update leaves it as it was; the pass makes no registry entry and no task for
\* an overdue auction in either case.
C4_OverdueClosedUnlessUpdateFails ==
    \A c \in Calls : \A a \in overdue[c] :
        /\ a \notin closeErr[c] => IsCompleted(a)
        /\ a \notin reserved[c] /\ a \notin spawned[c]

\* C4: a pass has returned nil after closing an overdue auction.
C4_Witness ==
    \E c \in Calls :
        pc[c] = "done" /\ ret[c] = "nil" /\ overdue[c] \ closeErr[c] # {}

\* C5: without store failure and without cancellation, every auction of the
\* store gets exactly one status update.
C5_ExactlyOneUpdate ==
    \A a \in Ids :
        ExpiresInTime(a) ~> (updates[a] = 1 \/ storeFailed \/ cancelled # {})

C7_EntryIffWaitingTask ==
    \A a \in Ids : (a \in DOMAIN AuctionsAutoClose) <=> (WaitingTasks(a) # {})

\* C8: no step removes an auction, and the only change of a status is from
\* Active to Completed; a Completed auction stays Completed.
C8_StatusMonotonic ==
    [][\A a \in DOMAIN Collection :
         /\ a \in DOMAIN Collection'
         /\ Collection'[a].Status # Collection[a].Status =>
               (Collection[a].Status = Active /\ Collection'[a].Status = Completed)]_vars

\* C8: a scheduling pass runs while the store holds a Completed auction.
C8_Witness ==
    \E a \in Ids, c \in Calls : IsCompleted(a) /\ pc[c] = "loop"

\* C9: a call whose listing failed goes straight to its return, returns the
\* error and leaves the mutex unlocked; from the failure to the return the
\* registry, the store and the tasks are left as they were, and the call has
\* closed, reserved and spawned nothing.
C9_ListingFailure ==
    [][\A c \in Calls :
         /\ listErr'[c] =>
               /\ pc'[c] \in {"L63", "done"}
               /\ pc'[c] = "done" => ret'[c] = "autoclose_error"
               /\ overdue'[c] = {} /\ reserved'[c] = {} /\ spawned'[c] = {}
         /\ (listErr'[c] /\ pc'[c] # pc[c]) =>
               /\ Collection' = Collection
               /\ AuctionsAutoClose' = AuctionsAutoClose
               /\ tasks' = tasks
               /\ pc'[c] = "done" => ~CloseMutex']_vars

\* C9: a call has returned the error of a failed listing while the store
\* holds an open auction.
C9_Witness ==
    \E c \in Calls :
        /\ listErr[c] /\ pc[c] = "done" /\ ret[c] = "autoclose_error"
        /\ ~CloseMutex
        /\ OpenSet(Collection) # {}

\* C10: after a failed immediate close the call still processes the remaining
\* auctions and returns nil.
C10_FailedCloseStillReturns ==
    \A c \in Calls :
        (closeErr[c] # {} /\ pc[c] # "done") ~> (pc[c] = "done" /\ ret[c] = "nil")

\* C11, as stated: a call that returned an error had its listing of the open
\* auctions fail, and a call with a failed close returns no error.
C11_ErrorOnlyFromListing ==
    \A c \in Calls : pc[c] = "done" =>
        /\ ret[c] # "nil" => listErr[c]
        /\ closeErr[c] # {} => ret[c] = "nil"

\* C11, amended: a call returns an error only when its insert failed or its
\* listing failed: the insert error exactly when the insert failed, before any
\* listing; the auto-close error exactly when the listing failed; and a call
\* with a failed close returns nil.
C11_ErrorOnlyFromInsertOrListing ==
    \A c \in Calls : pc[c] = "done" =>
        /\ ret[c] \in {"nil", "insert_error", "autoclose_error"}
        /\ ret[c] = "autoclose_error" <=> listErr[c]
        /\ ret[c] = "insert_error" => ctx[c] = 0 /\ overdue[c] = {}
        /\ closeErr[c] # {} => ret[c] = "nil"

\* C11: a call has returned nil although one of its immediate closes failed.
C11_Witness ==
    \E c \in Calls : pc[c] = "done" /\ ret[c] = "nil" /\ closeErr[c] # {}

\* C12: a closeAuction call that returns nil leaves the auction Completed if
\* the store holds it, inserts and removes nothing and touches no other
\* auction; on an id the store lacks, on a Completed auction, and so on every
\* call after the first on the same id, it leaves the store as it was.
C12_CloseIdempotent ==
    [][\A a \in Ids : updates'[a] = updates[a] + 1 =>
         /\ DOMAIN Collection' = DOMAIN Collection
         /\ a \in DOMAIN Collection => Collection'[a].Status = Completed
         /\ \A b \in DOMAIN Collection \ {a} : Collection'[b] = Collection[b]
         /\ a \notin DOMAIN Collection => Collection' = Collection
         /\ IsCompleted(a) => Collection' = Collection
         /\ updates[a] >= 1 => Collection' = Collection]_vars

\* C12: closeAuction has returned nil twice on an auction of the store and at
\* least once on an id the store lacks.
C12_Witness ==
    \E a, b \in Ids :
        /\ IsCompleted(a) /\ updates[a] = 2
        /\ b \notin DOMAIN Collection /\ updates[b] >= 1

\* C13: an Active auction that has a registry entry and no live goroutine is
\* not set to Completed by any step.
C13_StaleEntryNeverClosed ==
    [][\A a \in DOMAIN Collection :
         (/\ a \in DOMAIN AuctionsAutoClose
          /\ LiveTasks(a) = {}
          /\ Collection[a].Status = Active) => Collection'[a].Status = Active]_vars

\* some other call is in its check-and-insert (lines 90-97), or some goroutine
\* in its close-and-release (lines 109-117): the mutex is theirs
HeldByOther(c) ==
    \/ \E d \in Calls \ {c} : pc[d] = "L90"
    \/ \E i \in DOMAIN tasks : tasks[i].pc = "L112"

\* C14: a call in its scheduling pass holds CloseMutex only for the
\* check-and-insert of lines 90-97: while it lists, tests, closes or spawns,
\* the mutex is free or held by another call or goroutine.
C14_MutexOnlyForCheckAndInsert ==
    \A c \in Calls :
        (pc[c] \in {"find", "loop", "L99"} /\ CloseMutex) => HeldByOther(c)

\* the calls in their check-and-insert and the goroutines in their
\* close-and-release
InCheckAndInsert == {c \in Calls : pc[c] = "L90"}
InCloseAndRelease == {i \in DOMAIN tasks : tasks[i].pc = "L112"}

\* C15: the registry is read and written, and a fired goroutine closes and
\* deletes its entry, only with CloseMutex locked; at most one call or
\* goroutine is in such a section at a time.
C15_RegistryUnderMutex ==
    /\ (InCheckAndInsert # {} \/ InCloseAndRelease # {}) => CloseMutex
    /\ Cardinality(InCheckAndInsert) + Cardinality(InCloseAndRelease) <= 1

\* C16: a goroutine whose timer fired deletes the entry of its auction when
\* it leaves, whether or not its close succeeded; a failed close leaves the
\* store as it was.
C16_FiredTaskReleasesEntry ==
    [][\A i \in DOMAIN tasks :
         (tasks[i].pc = "L112" /\ tasks'[i].pc = "exited") =>
            /\ tasks[i].Id \notin DOMAIN AuctionsAutoClose'
            /\ tasks'[i].failed => Collection' = Collection]_vars

\* C17: a goroutine that leaves on ctx.Done() changes neither the registry,
\* the store nor the mutex, and the entry of its auction is still there.
C17_CancelledTaskFrame ==
    [][\A i \in DOMAIN tasks :
         (tasks[i].pc = "select" /\ tasks'[i].pc = "exited") =>
            /\ AuctionsAutoClose' = AuctionsAutoClose
            /\ Collection' = Collection
            /\ updates' = updates
            /\ CloseMutex' = CloseMutex
            /\ tasks[i].Id \in DOMAIN AuctionsAutoClose']_vars

\* C18: a pass leaves the check-and-insert of an auction with time left with
\* the entry of that auction in the registry, goes on to spawn exactly when
\* the entry was not there, and then starts exactly one goroutine for it.
C18_EveryListedAuctionScheduled ==
    [][\A c \in Calls :
         /\ (pc[c] = "L90" /\ pc'[c] # "L90") =>
               /\ cur[c].Id \in DOMAIN AuctionsAutoClose'
               /\ pc'[c] = "L99" <=> cur[c].Id \notin DOMAIN AuctionsAutoClose
         /\ (pc[c] = "L99" /\ pc'[c] # "L99") =>
               /\ Len(tasks') = Len(tasks) + 1
               /\ tasks'[Len(tasks')].Id = cur[c].Id
               /\ cur[c].Id \in DOMAIN AuctionsAutoClose']_vars

\* the remaining time of auction a counted from the Timestamp its entity was
\* created with, and the one line 79 computes from the stored seconds
TrueRemaining(a) == createdAt[a] + getAuctionInterval - now
StoredRemaining(a) == EndTime(Collection, a) - now

====
